---- MODULE Spec2Model ----
(***************************************************************************)
(* Model of the alert system of src/App.tsx (AlertsProvider: toasts and    *)
(* the confirm modal), of the destructive actions that are gated on a      *)
(* confirmation, and of the 401 handling of src/lib/api.ts.                *)
(*                                                                         *)
(* Time is counted in milliseconds; a pending timer carries the time left  *)
(* until its delay has passed.  An id produced by                          *)
(* Math.random().toString(36).slice(2, 9) is a value drawn from Ids: the   *)
(* code draws it at random and never compares it with the ids in use.  The *)
(* code only tests ids for equality, so a drawn id is taken to be one of   *)
(* the ids in use or the smallest id not in use.                           *)
(***************************************************************************)
EXTENDS Integers, Sequences, FiniteSets, TLC

\* ------------------------------------------------------------------ bounds
MaxCalls == 2        \* calls made by the screens: showToast calls and delete handlers started
NumIds == 2          \* size of the space of random ids
TickMs == 1000       \* the time that passes in one step of the clock

Ids == 1..NumIds

\* The values Math.random().toString(36).slice(2, 9) can give, up to renaming the
\* ids that are not in use.
RandomIds(used) ==
  LET free == Ids \ used IN
  (used \cap Ids) \cup {i \in free : \A j \in free : i <= j}

\* ------------------------------------------------------- values of the code
null == [isNull |-> TRUE]          \* JavaScript null (confirmModal, getUserIdFromToken)
TimeoutNull == -1                  \* payload.timeout === null
TimeoutUndefined == -2             \* payload.timeout omitted
NoTitle == "undefined"             \* title omitted
NoMessage == "undefined"           \* message missing: the caller bypassed the type

ToastType == {"success", "error", "info", "warning"}

\* Payloads the call sites pass to showToast (Omit<ToastItem, "id">).
Payloads ==
  { [type |-> "success", title |-> "Connecté", message |-> "Bienvenue !", timeout |-> 2000],
    [type |-> "error", title |-> NoTitle, message |-> "Impossible de charger le groupe",
     timeout |-> TimeoutUndefined],
    [type |-> "info", title |-> NoTitle, message |-> "Info", timeout |-> TimeoutNull] }

\* payload.timeout ?? 3000 in src/App.tsx (part_001, line 52); the other version of
\* the file (part_000, line 50) has 4000.
DefaultTimeout == 3000

\* Timestamps (new Date(x).getTime(), Date.now()) range over 0..MaxTime; 0 is the
\* epoch, "1970-01-01T00:00:00.000Z".
MaxTime == 3
NoDate == -1                       \* startDate / endDate null, undefined or ""
Dates == {NoDate} \cup (0..MaxTime)

VARIABLES
  toasts,        \* useState<ToastItem[]>: the visible toasts, head first
  timers,        \* the pending setTimeout callbacks of showToast, with the time left
  nposts,        \* number of showToast calls so far
  returned,      \* the value the last showToast call returned (0 before the first call)
  removals,      \* history: some hideToast or timer callback has run
  dismissed,     \* history: post numbers of the toasts a hideToast call removed
  fired,         \* history: post numbers of the toasts whose timer callback has run
  expired,       \* history: post numbers of the toasts a timer callback removed
  confirmModal,  \* useState<ConfirmPayload | null>
  rendered,      \* the confirmModal the OK/Cancel handlers of the last render closed over
  promises,      \* the promise of each confirm call, in call order
  resolvedTwice, \* history: a resolve closure has run on a promise that was settled
  callers,       \* the delete handler that made each confirm call, and where it is
  tasks,         \* GroupPage: useState<any[]>, the displayed tasks, first row first
  members,       \* GroupPage: group.members (their ids)
  token,         \* localStorage "token"
  route,         \* the router's location
  drawerOpen,    \* App: profileOpen
  defaultAuth,   \* api.defaults.headers.common["Authorization"]
  pending,       \* the requests of Login and Dashboard awaiting their response
  sent,          \* history: the stored token and the header sent, for each request of
                 \* Login and Dashboard
  groups,        \* Dashboard: useState<any[]>, the displayed groups
  serverGroups,  \* the server: the groups the user belongs to
  dateNow,       \* Date.now()
  shown,         \* the last status a task row displayed, with the dates it came from
  response,      \* history: the status of the last response to them, with the token
                 \* stored before and after the response was handled
  editingTaskId, \* GroupPage: useState<string | null>, the task in edit mode
  editStart,     \* GroupPage: the datetime-local input of the start ("" is NoDate)
  editEnd        \* GroupPage: the datetime-local input of the end

toastVars == <<toasts, timers, nposts, returned>>
histVars == <<removals, dismissed, fired, expired>>
confirmVars == <<confirmModal, rendered, promises, resolvedTwice>>
pageVars == <<tasks, members, token, route, drawerOpen>>
apiVars == <<defaultAuth, pending, sent, response>>
viewVars == <<groups, serverGroups, dateNow, shown>>
editVars == <<editingTaskId, editStart, editEnd>>
appVars == <<pageVars, apiVars, viewVars, editVars>>
vars == <<toasts, timers, nposts, returned, removals, dismissed, fired, expired, confirmModal,
          rendered, promises, resolvedTwice, callers, tasks, members, token, route,
          drawerOpen, defaultAuth, pending, sent, response, groups, serverGroups,
          dateNow, shown, editingTaskId, editStart, editEnd>>

\* ------------------------------------------------------------ toast registry

\* { id, ...payload }; seq is the number of the showToast call (history only).
ToastItem(id, payload, seq) ==
  [id |-> id, type |-> payload.type, title |-> payload.title,
   message |-> payload.message, timeout |-> payload.timeout, seq |-> seq]

\* A wrong order of the spread: (s) => [...s, item]
AppendLast(item, s) == s \o <<item>>

\* A non-functional update through the closure of the first render, whose toasts
\* is []: setToasts([item, ...toasts]). The toasts posted since are lost.
PrependToInitial(item, s) == <<item>>

\* (s) => [item, ...s]
Prepend(item, s) == <<item>> \o s

\* A wrong comparison in the filter: (s) => s.filter((x) => x.id === id)
FilterKeepId(s, id) == SelectSeq(s, LAMBDA x : x.id = id)

\* A filter that drops the first toast whatever its id: (s) => s.slice(1)
FilterOutHead(s, id) == IF s = <<>> THEN s ELSE Tail(s)

\* A filter that also drops the oldest toast:
\* (s) => s.filter((x) => x.id !== id).slice(0, -1)
FilterOutIdAndLast(s, id) ==
  LET kept == SelectSeq(s, LAMBDA x : x.id # id)
  IN  IF kept = <<>> THEN kept ELSE SubSeq(kept, 1, Len(kept) - 1)

\* (s) => s.filter((x) => x.id !== id)
FilterOutId(s, id) == SelectSeq(s, LAMBDA x : x.id # id)

\* payload.timeout ?? 3000
ResolveTimeout(t) == IF t = TimeoutUndefined THEN DefaultTimeout ELSE t

\* One shared timer handle: scheduling a callback replaces the pending ones.
ScheduleTimerAlone(ts, id, t, seq) ==
  IF t # TimeoutNull
    THEN {[id |-> id, left |-> ResolveTimeout(t), seq |-> seq]}
    ELSE ts

\* setTimeout(callback for id, t) when payload.timeout !== null
ScheduleTimer(ts, id, t, seq) ==
  IF t # TimeoutNull
    THEN ts \cup {[id |-> id, left |-> ResolveTimeout(t), seq |-> seq]}
    ELSE ts

\* showToast(payload), Math.random() giving id
showToast(payload, id) ==
  /\ toasts' = Prepend(ToastItem(id, payload, nposts + 1), toasts)
  /\ timers' = ScheduleTimer(timers, id, payload.timeout, nposts + 1)
  /\ nposts' = nposts + 1
  /\ returned' = id

\* The toast ids a toast or a pending timer callback holds.
ToastIdsInUse == {toasts[i].id : i \in 1..Len(toasts)} \cup {t.id : t \in timers}

SeqsWithId(s, id) == {s[i].seq : i \in {j \in 1..Len(s) : s[j].id = id}}

\* The calls the screens have made: showToast calls other than those of the delete
\* handlers, and delete handlers started.
Calls == nposts - Cardinality({r \in 1..Len(callers) : callers[r].posts > 0}) + Len(callers)

\* A call site posts a toast.
PostToast ==
  /\ Calls < MaxCalls
  /\ \E p \in Payloads, id \in RandomIds(ToastIdsInUse) : showToast(p, id)
  /\ UNCHANGED <<histVars, confirmVars, callers, appVars>>

\* A hideToast that also closes the modal:
\* setToasts((s) => s.filter((x) => x.id !== id)); setConfirmModal(null);
hideToastAndModal(id) ==
  /\ toasts' = FilterOutId(toasts, id)
  /\ removals' = TRUE
  /\ dismissed' = dismissed \cup SeqsWithId(toasts, id)
  /\ confirmModal' = null
  /\ UNCHANGED <<timers, nposts, returned, fired, expired, rendered, promises,
                 resolvedTwice, callers, appVars>>

\* A caller the compiler has not checked (a value of type any, a cast) calls
\* showToast with no message; showToast itself inspects nothing but timeout.
PostWithoutMessage ==
  /\ Calls < MaxCalls
  /\ \E ty \in {"info", "error"}, id \in RandomIds(ToastIdsInUse) :
       showToast([type |-> ty, title |-> NoTitle, message |-> NoMessage,
                  timeout |-> TimeoutUndefined], id)
  /\ UNCHANGED <<histVars, confirmVars, callers, appVars>>

\* hideToast(id): the close button of a toast, or any caller holding an id
hideToast(id) ==
  /\ toasts' = FilterOutId(toasts, id)
  /\ removals' = TRUE
  /\ dismissed' = dismissed \cup SeqsWithId(toasts, id)
  /\ UNCHANGED <<timers, nposts, returned, fired, expired, confirmVars, callers, appVars>>

HideToast == \E id \in Ids : hideToast(id)

\* setInterval in place of setTimeout: the callback runs and stays scheduled.
TimerFireInterval ==
  \E t \in timers :
    /\ t.left = 0
    /\ toasts' = FilterOutId(toasts, t.id)
    /\ removals' = TRUE
    /\ fired' = fired \cup {t.seq}
    /\ expired' = expired \cup SeqsWithId(toasts, t.id)
    /\ UNCHANGED <<timers, nposts, returned, dismissed, confirmVars, callers, appVars>>

\* The setTimeout callback of a toast runs, no earlier than its delay.
TimerFire ==
  \E t \in timers :
    /\ t.left = 0
    /\ toasts' = FilterOutId(toasts, t.id)
    /\ timers' = timers \ {t}
    /\ removals' = TRUE
    /\ fired' = fired \cup {t.seq}
    /\ expired' = expired \cup SeqsWithId(toasts, t.id)
    /\ UNCHANGED <<nposts, returned, dismissed, confirmVars, callers, appVars>>

\* TickMs pass: every pending timer has that much less time left.
Elapse(ts) ==
  {[id |-> t.id, left |-> IF t.left > TickMs THEN t.left - TickMs ELSE 0, seq |-> t.seq] : t \in ts}

Tick ==
  /\ \E t \in timers : t.left > 0
  /\ timers' = Elapse(timers)
  /\ UNCHANGED <<toasts, nposts, returned, histVars, confirmVars, callers, appVars>>

\* ------------------------------------------------------- confirmation broker

\* A settlement that overwrites the value of a settled promise.
PromiseResolveOverwrite(p, v) == [settled |-> TRUE, value |-> v]

\* The settlement function of `new Promise<boolean>((resolve) => ...)`: it settles a
\* pending promise and is ignored once the promise is settled.
PromiseResolve(p, v) == IF p.settled THEN p ELSE [settled |-> TRUE, value |-> v]

NoLabel == "undefined"             \* okLabel / cancelLabel omitted

\* Defaults taken with || instead of ??: an empty label is replaced too.
ConfirmPayloadOrDefault(id, opts, req) ==
  [id |-> id, title |-> opts.title, message |-> opts.message,
   okLabel |-> IF opts.okLabel \in {NoLabel, ""} THEN "OK" ELSE opts.okLabel,
   cancelLabel |-> IF opts.cancelLabel \in {NoLabel, ""} THEN "Annuler" ELSE opts.cancelLabel,
   resolve |-> req]

\* The object confirm passes to setConfirmModal; `resolve` names the promise its
\* resolve closure settles.
ConfirmPayload(id, opts, req) ==
  [id |-> id, title |-> opts.title, message |-> opts.message,
   okLabel |-> IF opts.okLabel = NoLabel THEN "OK" ELSE opts.okLabel,
   cancelLabel |-> IF opts.cancelLabel = NoLabel THEN "Annuler" ELSE opts.cancelLabel,
   resolve |-> req]

\* The confirmation ids the slot or a rendered handler holds.
ConfirmIdsInUse ==
  (IF confirmModal = null THEN {} ELSE {confirmModal.id})
    \cup (IF rendered = null THEN {} ELSE {rendered.id})

\* confirm(opts), Math.random() giving id
confirm(opts, id) ==
  /\ promises' = Append(promises, [settled |-> FALSE, value |-> FALSE])
  /\ UNCHANGED resolvedTwice
  /\ confirmModal' = ConfirmPayload(id, opts, Len(promises) + 1)
  /\ UNCHANGED rendered

\* A broker that answers every waiting caller at once: each pending promise is
\* settled with v and the slot is cleared.
resolveEveryPending(payload, v) ==
  /\ promises' = [r \in DOMAIN promises |-> PromiseResolve(promises[r], v)]
  /\ confirmModal' = null
  /\ resolvedTwice' = (resolvedTwice \/ promises[payload.resolve].settled)
  /\ UNCHANGED rendered

\* A resolve closure that settles the promise and leaves the slot: resolve(v);
resolveKeepModal(payload, v) ==
  /\ promises' = [promises EXCEPT ![payload.resolve] = PromiseResolve(@, v)]
  /\ resolvedTwice' = (resolvedTwice \/ promises[payload.resolve].settled)
  /\ UNCHANGED <<confirmModal, rendered>>

\* payload.resolve(v): resolve(v); setConfirmModal(null);
resolve(payload, v) ==
  /\ promises' = [promises EXCEPT ![payload.resolve] = PromiseResolve(@, v)]
  /\ confirmModal' = null
  /\ resolvedTwice' = (resolvedTwice \/ promises[payload.resolve].settled)
  /\ UNCHANGED rendered

\* React renders AlertsProvider: the modal and its button handlers now close over
\* the current confirmModal.
Render ==
  /\ rendered # confirmModal
  /\ rendered' = confirmModal
  /\ UNCHANGED <<toastVars, histVars, confirmModal, promises, resolvedTwice,
                 callers, appVars>>

\* onClick={() => confirmModal.resolve(true)} of the rendered modal
ClickOk ==
  /\ rendered # null
  /\ resolve(rendered, TRUE)
  /\ UNCHANGED <<toastVars, histVars, callers, appVars>>

\* onClick={() => confirmModal.resolve(false)} of the rendered modal
ClickCancel ==
  /\ rendered # null
  /\ resolve(rendered, FALSE)
  /\ UNCHANGED <<toastVars, histVars, callers, appVars>>

\* ------------------------------------------------- destructive actions (callers)

GroupRoute == "/groups/:id"
NoTask == "null"                    \* editingTaskId === null
\* The task the page displays at first, and a later one of another member.
FirstTask == [id |-> "t1", createdAt |-> 1, startDate |-> NoDate, endDate |-> NoDate]
SecondTask == [id |-> "t2", createdAt |-> 2, startDate |-> 1, endDate |-> NoDate]
MemberIds == {"m1"}
NoToken == "null"                   \* localStorage.getItem("token") === null
TokenWithId == "jwt{id}"            \* a token whose payload carries id or _id
NoUid == "null"

\* The Authorization header: none, or `Bearer ${token}`.
NoAuthorization == <<>>
Bearer(tok) == <<"Bearer", tok>>

\* The header of a request issued while tok is stored: axios merges
\* api.defaults.headers.common into the request's headers, then the request
\* interceptor sets Authorization when localStorage holds a token.
RequestAuth(tok, default) == IF tok # NoToken THEN Bearer(tok) ELSE default

\* sent after a request issued while tok is stored
Issued(tok) == sent \cup {[stored |-> tok, auth |-> RequestAuth(tok, defaultAuth)]}

\* getUserIdFromToken(), reading the stored token tok
getUserIdFromToken(tok) == IF tok = TokenWithId THEN "uid" ELSE NoUid

\* An interceptor that ends the session on every error:
\* (err) => { localStorage.removeItem("token"); return Promise.reject(err); }
RemoveTokenOnError(tok, status) == IF status # 200 THEN NoToken ELSE tok

\* The response interceptor of api: a 401 removes the stored token; the error is
\* rejected to the caller in every case.
ResponseInterceptor(tok, status) == IF status = 401 THEN NoToken ELSE tok

ApiStatus == {200, 401, 500}

ConfirmOpts(kind) ==
  CASE kind = "deleteTask" ->
         [title |-> NoTitle, message |-> "Supprimer cette tâche ?",
          okLabel |-> "Supprimer", cancelLabel |-> "Annuler"]
    [] kind = "deleteGroup" ->
         [title |-> NoTitle, message |-> "Supprimer ce groupe et toutes ses tâches ?",
          okLabel |-> "Supprimer", cancelLabel |-> "Annuler"]
    [] kind = "removeMember" ->
         [title |-> NoTitle, message |-> "Supprimer ce membre du groupe ?",
          okLabel |-> "Supprimer", cancelLabel |-> "Annuler"]
    [] kind = "deleteAccount" ->
         [title |-> "Supprimer le compte", message |-> "Es-tu sûr de vouloir supprimer ton compte ?",
          okLabel |-> "Supprimer", cancelLabel |-> "Annuler"]

SuccessToast(kind) ==
  [type |-> "success", title |-> NoTitle, timeout |-> TimeoutUndefined,
   message |-> CASE kind = "deleteTask" -> "Tâche supprimée"
                 [] kind = "deleteGroup" -> "Groupe supprimé"
                 [] kind = "removeMember" -> "Membre supprimé"
                 [] kind = "deleteAccount" -> "Compte supprimé"]

ErrorToast(kind) ==
  [type |-> "error", title |-> NoTitle, timeout |-> TimeoutUndefined,
   message |-> CASE kind = "deleteTask" -> "Erreur suppression"
                 [] kind = "deleteGroup" -> "Erreur suppression groupe"
                 [] kind = "removeMember" -> "Erreur suppression membre"
                 [] kind = "deleteAccount" -> "Erreur suppression compte"]

\* A delete handler starts: `const ok = await alerts.confirm({...})`.
\* calls, posts and changed are history: the DELETE requests the handler has issued,
\* the toasts it has posted, and whether it has changed the application's state.
StartHandler(kind, arg) ==
  /\ Calls < MaxCalls
  /\ callers' = Append(callers, [kind |-> kind, arg |-> arg, pc |-> "confirm",
                                 calls |-> 0, posts |-> 0, changed |-> FALSE])
  /\ \E id \in RandomIds(ConfirmIdsInUse) : confirm(ConfirmOpts(kind), id)
  /\ UNCHANGED <<toastVars, histVars, appVars>>

deleteTask == \E idTask \in {tasks[i].id : i \in 1..Len(tasks)} : route = GroupRoute /\ StartHandler("deleteTask", idTask)

deleteGroup == route = GroupRoute /\ StartHandler("deleteGroup", "group")

removeMember == \E memberId \in members : route = GroupRoute /\ StartHandler("removeMember", memberId)

deleteAccount == drawerOpen /\ StartHandler("deleteAccount", "me")

\* A handler without `if (!ok) return;`: it issues its request whatever the answer.
AfterConfirmAnyAnswer(r) ==
  /\ callers[r].pc = "confirm"
  /\ promises[r].settled
  /\ callers' = [callers EXCEPT ![r].pc = "api", ![r].calls = @ + 1]
  /\ UNCHANGED <<toastVars, histVars, confirmVars, appVars>>

\* The handler resumes after `await alerts.confirm(...)`: `if (!ok) return;`, else it
\* issues its DELETE request.
AfterConfirm(r) ==
  /\ callers[r].pc = "confirm"
  /\ promises[r].settled
  /\ callers' = IF promises[r].value
                  THEN [callers EXCEPT ![r].pc = "api", ![r].calls = @ + 1]
                  ELSE [callers EXCEPT ![r].pc = "returned"]
  /\ UNCHANGED <<toastVars, histVars, confirmVars, appVars>>

ResumeHandler == \E r \in 1..Len(callers) : AfterConfirm(r)

\* The success branch of a handler's try block, after `await api.delete(...)`.
OnDeleted(r) ==
  LET c == callers[r] IN
  /\ \E id \in RandomIds(ToastIdsInUse) : showToast(SuccessToast(c.kind), id)
  /\ callers' = [callers EXCEPT ![r].pc = "done", ![r].posts = @ + 1, ![r].changed = TRUE]
  /\ tasks' = IF c.kind = "deleteTask"
                THEN SelectSeq(tasks, LAMBDA t : t.id # c.arg) ELSE tasks
  /\ members' = IF c.kind = "removeMember" THEN members \ {c.arg} ELSE members
  /\ route' = CASE c.kind = "deleteGroup" -> "/dashboard"
                [] c.kind = "deleteAccount" -> "/"
                [] OTHER -> route
  /\ token' = IF c.kind = "deleteAccount" THEN NoToken ELSE token
  /\ drawerOpen' = IF c.kind = "deleteAccount" THEN FALSE ELSE drawerOpen
  /\ UNCHANGED sent

\* A catch branch that also ends the session: the error toast, then
\* localStorage.removeItem("token"); nav("/");
OnFailedEndsSession(r, tok) ==
  /\ \E id \in RandomIds(ToastIdsInUse) : showToast(ErrorToast(callers[r].kind), id)
  /\ callers' = [callers EXCEPT ![r].pc = "done", ![r].posts = @ + 1, ![r].changed = TRUE]
  /\ token' = NoToken
  /\ route' = "/"
  /\ UNCHANGED <<tasks, members, drawerOpen, sent>>

\* The catch branch that ends a handler: the error toast.
OnFailed(r, tok) ==
  /\ \E id \in RandomIds(ToastIdsInUse) : showToast(ErrorToast(callers[r].kind), id)
  /\ callers' = [callers EXCEPT ![r].pc = "done", ![r].posts = @ + 1,
                                ![r].changed = @ \/ tok # token]
  /\ token' = tok
  /\ UNCHANGED <<tasks, members, route, drawerOpen, sent>>

\* deleteAccount's catch branch when getUserIdFromToken() gives an id: the fallback
\* request `await api.delete(`/users/${uid}`)`.
Fallback(r, tok) ==
  /\ callers' = [callers EXCEPT ![r].pc = "api2", ![r].calls = @ + 1,
                                ![r].changed = @ \/ tok # token]
  /\ token' = tok
  /\ UNCHANGED <<toastVars, tasks, members, route, drawerOpen, sent>>

\* The response to a handler's DELETE request arrives with the given status.
ApiResponse(r, status) ==
  LET c == callers[r]
      tok == ResponseInterceptor(token, status)
  IN
  /\ c.pc \in {"api", "api2"}
  /\ IF status = 200
       THEN OnDeleted(r)
       ELSE IF c.kind = "deleteAccount" /\ c.pc = "api" /\ getUserIdFromToken(tok) # NoUid
              THEN Fallback(r, tok)
              ELSE OnFailed(r, tok)
  /\ UNCHANGED <<histVars, confirmVars, defaultAuth, pending, response, viewVars, editVars>>

Respond == \E r \in 1..Len(callers), status \in ApiStatus : ApiResponse(r, status)

\* PrivateRoute, evaluated when App renders: with no stored token it replaces a
\* protected location by "/".
PrivateRoute(tok, location) ==
  IF tok = NoToken /\ location \in {"/dashboard", GroupRoute} THEN "/" ELSE location

\* ProfileContext.open: setProfileOpen(true), from the avatar of a protected page.
\* App renders again, and with it the PrivateRoute of the current location.
openProfile ==
  /\ ~drawerOpen
  /\ route \in {"/dashboard", GroupRoute}
  /\ drawerOpen' = TRUE
  /\ route' = PrivateRoute(token, route)
  /\ UNCHANGED <<toastVars, histVars, confirmVars, callers, tasks, members, viewVars, editVars, token, apiVars>>

\* ------------------------------------------------------------- task status

\* The truthiness of `start ? new Date(start).getTime() : null`: null is falsy,
\* and so is the timestamp 0.
Truthy(t) == t # NoDate /\ t # 0

\* computeStatusFromDates(start, end) when Date.now() is now
computeStatusFromDates(start, end, now) ==
  IF start = NoDate /\ end = NoDate THEN "En attente"
  ELSE IF Truthy(start) /\ now < start THEN "En attente"
  ELSE IF Truthy(end) /\ now >= end THEN "Terminée"
  ELSE IF Truthy(start) /\ Truthy(end) /\ now >= start /\ now < end THEN "En cours"
  ELSE IF Truthy(start) /\ ~Truthy(end) /\ now >= start THEN "En cours"
  ELSE IF ~Truthy(start) /\ Truthy(end) /\ now < end THEN "En cours"
  ELSE "En attente"

\* A task row renders: const status = computeStatusFromDates(t.startDate, t.endDate)
renderTaskStatus ==
  /\ \E start \in Dates, end \in Dates :
       shown' = [start |-> start, end |-> end, now |-> dateNow,
                 status |-> computeStatusFromDates(start, end, dateNow)]
  /\ UNCHANGED <<toastVars, histVars, confirmVars, callers, pageVars, apiVars, groups,
                 serverGroups, dateNow, editVars>>

\* Time passes.
clockAdvances ==
  /\ dateNow < MaxTime
  /\ dateNow' = dateNow + 1
  /\ UNCHANGED <<toastVars, histVars, confirmVars, callers, pageVars, apiVars, groups,
                 serverGroups, shown, editVars>>

\* ----------------------------------------------------- session (login, logout)

\* s without its i-th element
RemoveAt(s, i) == SubSeq(s, 1, i - 1) \o SubSeq(s, i + 1, Len(s))

\* res.data.token ?? res.data.accessToken of a successful login: a token, or none
LoginTokens == {TokenWithId, NoToken}

LoginSuccessToast ==
  [type |-> "success", title |-> "Connecté", message |-> "Bienvenue !", timeout |-> 2000]

LoginErrorToast ==
  [type |-> "error", title |-> "Erreur", message |-> "Impossible de se connecter",
   timeout |-> 4000]

FetchErrorToast ==
  [type |-> "error", title |-> NoTitle, message |-> "Impossible de charger les groupes",
   timeout |-> TimeoutUndefined]

\* A request of Login or Dashboard is issued: `await api.post(...)`, `await api.get(...)`.
IssueRequest(op) ==
  /\ Calls + Len(pending) < MaxCalls
  /\ pending' = Append(pending, [op |-> op])
  /\ sent' = Issued(token)
  /\ UNCHANGED <<toastVars, histVars, confirmVars, callers, pageVars, defaultAuth, response,
                 viewVars, editVars>>

\* Login.submit up to `await api.post("/auth/login", ...)`; the form is not
\* disabled while a request is in flight.
submit == route = "/" /\ IssueRequest("login")

\* response after a response with the given status has been handled
Received(op, status) == [op |-> op, status |-> status, stored |-> token, left |-> token']

\* The try branch of Login.submit after a 2xx response carrying tok (or no token).
OnLoggedIn(tok) ==
  /\ token' = IF tok # NoToken THEN tok ELSE token
  /\ defaultAuth' = IF tok # NoToken THEN Bearer(tok) ELSE defaultAuth
  /\ \E id \in RandomIds(ToastIdsInUse) : showToast(LoginSuccessToast, id)
  /\ route' = PrivateRoute(token', "/dashboard")
  /\ response' = Received("login", 200)

\* The catch branch of Login.submit, after the response interceptor.
OnLoginFailed(status) ==
  /\ token' = ResponseInterceptor(token, status)
  /\ \E id \in RandomIds(ToastIdsInUse) : showToast(LoginErrorToast, id)
  /\ response' = Received("login", status)
  /\ UNCHANGED <<defaultAuth, route>>

\* The response to a login request arrives.
LoginResponse ==
  \E i \in 1..Len(pending) :
    /\ pending[i].op = "login"
    /\ pending' = RemoveAt(pending, i)
    /\ \/ \E tok \in LoginTokens : OnLoggedIn(tok)
       \/ \E status \in ApiStatus \ {200} : OnLoginFailed(status)
    /\ UNCHANGED <<histVars, confirmVars, callers, tasks, members, viewVars, editVars, drawerOpen, sent>>

\* ------------------------------------------------------- dashboard (groups)

\* The group of the page /groups/:id, and an older group the user can join.
OwnGroup == [id |-> 1, createdAt |-> 2]
JoinableGroup == [id |-> 2, createdAt |-> 1]

\* x put into a list sorted newest first, after the entries that are not older
\* (Array.prototype.sort is stable).
InsertDesc(sorted, x) ==
  LET before == {i \in 1..Len(sorted) : sorted[i].createdAt >= x.createdAt}
      k == Cardinality(before)
  IN  SubSeq(sorted, 1, k) \o <<x>> \o SubSeq(sorted, k + 1, Len(sorted))

RECURSIVE sortByCreatedDesc(_)
\* (arr || []).slice().sort((a, b) => tb - ta)
sortByCreatedDesc(arr) ==
  IF arr = <<>> THEN <<>>
  ELSE InsertDesc(sortByCreatedDesc(SubSeq(arr, 1, Len(arr) - 1)), arr[Len(arr)])

RECURSIVE ServerList(_)
\* The body of a 200 response to GET /groups: the server lists the oldest first.
ServerList(gs) ==
  IF gs = {} THEN <<>>
  ELSE LET g == CHOOSE x \in gs : \A y \in gs : x.createdAt <= y.createdAt
       IN  <<g>> \o ServerList(gs \ {g})

\* The group POST /groups creates: a fresh id, and the latest creation time.
NewGroup ==
  [id |-> 1 + Cardinality(serverGroups \cup {JoinableGroup}),
   createdAt |-> 1 + Cardinality(serverGroups \cup {JoinableGroup})]

\* A form of the dashboard is submitted: the request is issued, the server
\* handles it (data is the body of its 2xx response) and the response is in flight.
PostGroup(op, data) ==
  /\ Calls + Len(pending) < MaxCalls
  /\ pending' = Append(pending, [op |-> op, data |-> data])
  /\ serverGroups' = serverGroups \cup {data}
  /\ sent' = Issued(token)
  /\ UNCHANGED <<toastVars, histVars, confirmVars, callers, pageVars, defaultAuth, response,
                 groups, dateNow, shown, editVars>>

\* Dashboard.create up to `await api.post("/groups", { name })`
create == route = "/dashboard" /\ PostGroup("create", NewGroup)

\* Dashboard.join up to `await api.post("/groups/join", { code: joinCode })`
join == route = "/dashboard" /\ PostGroup("join", JoinableGroup)

\* The try branch of Dashboard.fetchGroups, create and join after a 2xx response.
GroupsResponse ==
  \E i \in 1..Len(pending) :
    LET q == pending[i] IN
    /\ q.op \in {"fetchGroups", "create", "join"}
    /\ pending' = RemoveAt(pending, i)
    /\ response' = [op |-> q.op, status |-> 200, stored |-> token, left |-> token]
    /\ CASE q.op = "fetchGroups" ->
             /\ groups' = sortByCreatedDesc(ServerList(serverGroups))
             /\ UNCHANGED toastVars
         [] q.op = "create" ->
             /\ groups' = sortByCreatedDesc(<<q.data>> \o groups)
             /\ \E id \in RandomIds(ToastIdsInUse) :
                  showToast([type |-> "success", title |-> NoTitle,
                             message |-> "Groupe créé", timeout |-> TimeoutUndefined], id)
         [] q.op = "join" ->
             /\ groups' = sortByCreatedDesc(
                            <<q.data>> \o SelectSeq(groups, LAMBDA g : g.id # q.data.id))
             /\ \E id \in RandomIds(ToastIdsInUse) :
                  showToast([type |-> "success", title |-> NoTitle,
                             message |-> "Groupe rejoint", timeout |-> TimeoutUndefined], id)
    /\ UNCHANGED <<histVars, confirmVars, callers, pageVars, defaultAuth, sent,
                   serverGroups, dateNow, shown, editVars>>

\* Dashboard.fetchGroups up to `await api.get("/groups")`. It is called by the
\* effect of the mount alone: the list is empty and no form has been submitted.
fetchGroups ==
  /\ route = "/dashboard"
  /\ groups = <<>>
  /\ \A i \in 1..Len(pending) : pending[i].op \notin {"create", "join"}
  /\ IssueRequest("fetchGroups")

\* The rest of Dashboard.fetchGroups: a 401 removes the token and navigates to
\* "/"; another error posts a toast.
FetchResponse ==
  \E i \in 1..Len(pending), status \in ApiStatus :
    /\ pending[i].op = "fetchGroups"
    /\ pending' = RemoveAt(pending, i)
    /\ token' = ResponseInterceptor(token, status)
    /\ route' = IF status = 401 THEN "/" ELSE route
    /\ IF status = 500
         THEN \E id \in RandomIds(ToastIdsInUse) : showToast(FetchErrorToast, id)
         ELSE UNCHANGED toastVars
    /\ response' = Received("fetchGroups", status)
    /\ UNCHANGED <<histVars, confirmVars, callers, tasks, members, viewVars, editVars, drawerOpen,
                   defaultAuth, sent>>

\* Dashboard.open: nav(`/groups/${gid}`); the route renders through PrivateRoute.
open ==
  /\ route = "/dashboard"
  /\ route' = PrivateRoute(token, GroupRoute)
  /\ UNCHANGED <<toastVars, histVars, confirmVars, callers, tasks, members, viewVars, editVars, token,
                 drawerOpen, apiVars>>

\* The Retour button of GroupPage: nav("/dashboard").
backToDashboard ==
  /\ route = GroupRoute
  /\ route' = PrivateRoute(token, "/dashboard")
  /\ UNCHANGED <<toastVars, histVars, confirmVars, callers, tasks, members, viewVars, editVars, token,
                 drawerOpen, apiVars>>

\* Dashboard.logout (and App.handleLogout): the token is removed, then nav("/").
logout ==
  /\ route = "/dashboard"
  /\ token' = NoToken
  /\ route' = "/"
  /\ UNCHANGED <<toastVars, histVars, confirmVars, callers, tasks, members, viewVars, editVars, drawerOpen,
                 apiVars>>

\* ProfileDrawer.logout: the token is removed, the drawer closed, then nav("/").
drawerLogout ==
  /\ drawerOpen
  /\ token' = NoToken
  /\ drawerOpen' = FALSE
  /\ route' = "/"
  /\ UNCHANGED <<toastVars, histVars, confirmVars, callers, tasks, members, viewVars, editVars, apiVars>>

\* ---------------------------------------------------- GroupPage (task edit)

\* Times are counted in half minutes: a datetime-local input holds whole minutes.
HalfMinutes == 2

\* isoToLocalInput(iso): "" for a missing date, else the local time cut after the
\* minutes, slice(0, 16).
isoToLocalInput(iso) == IF iso = NoDate THEN NoDate ELSE (iso \div HalfMinutes) * HalfMinutes

\* localInputToIso(local): null for "", else the instant of the local time.
localInputToIso(local) == IF local = NoDate THEN NoDate ELSE local

\* What the user types into a datetime-local input: nothing, a minute that has
\* passed or a minute to come.
LocalInputs == {NoDate, isoToLocalInput(dateNow - 1), isoToLocalInput(dateNow + 1)}

\* validateDateNotPastLocal(localVal) when Date.now() is now
validateDateNotPastLocal(localVal, now) == IF localVal = NoDate THEN TRUE ELSE localVal >= now

\* The two checks of saveEdit that end it with an error toast.
PastStart(start, now) == start # NoDate /\ ~validateDateNotPastLocal(start, now)
EndBeforeStart(start, end) == start # NoDate /\ end # NoDate /\ end < start

\* prev.map(t => (String(t._id || t.id) === String(id) ? data : t)), as a mutant
\* that replaces every row
ReplaceEveryTask(prev, id, data) == [k \in DOMAIN prev |-> data]

\* prev.map(t => (String(t._id || t.id) === String(id) ? data : t))
ReplaceTask(prev, id, data) == [k \in DOMAIN prev |-> IF prev[k].id = id THEN data ELSE prev[k]]

\* GroupPage.startEdit(t): the edit button of a row that is not in edit mode.
startEdit ==
  /\ route = GroupRoute
  /\ \E k \in 1..Len(tasks) :
       /\ tasks[k].id # editingTaskId
       /\ editingTaskId' = tasks[k].id
       /\ editStart' = isoToLocalInput(tasks[k].startDate)
       /\ editEnd' = isoToLocalInput(tasks[k].endDate)
  /\ UNCHANGED <<toastVars, histVars, confirmVars, callers, pageVars, apiVars, viewVars>>

\* The Annuler button of a row in edit mode: setEditingTaskId(null).
cancelEdit ==
  /\ route = GroupRoute
  /\ editingTaskId # NoTask
  /\ editingTaskId' = NoTask
  /\ UNCHANGED <<toastVars, histVars, confirmVars, callers, pageVars, apiVars, viewVars,
                 editStart, editEnd>>

\* onChange of the start input of the row in edit mode: setEditStart(e.target.value).
setEditStart ==
  /\ route = GroupRoute
  /\ editingTaskId # NoTask
  /\ \E v \in LocalInputs \ {editStart} : editStart' = v
  /\ UNCHANGED <<toastVars, histVars, confirmVars, callers, pageVars, apiVars, viewVars,
                 editingTaskId, editEnd>>

\* onChange of the end input of the row in edit mode: setEditEnd(e.target.value).
setEditEnd ==
  /\ route = GroupRoute
  /\ editingTaskId # NoTask
  /\ \E v \in LocalInputs \ {editEnd} : editEnd' = v
  /\ UNCHANGED <<toastVars, histVars, confirmVars, callers, pageVars, apiVars, viewVars,
                 editingTaskId, editStart>>

SaveErrorToast(message) ==
  [type |-> "error", title |-> NoTitle, message |-> message, timeout |-> TimeoutUndefined]

\* The body of a 2xx response to PUT /tasks/{id}: the task with the dates of the
\* payload.
SavedTask(id, start, end) ==
  LET k == CHOOSE j \in 1..Len(tasks) : tasks[j].id = id IN
  [id |-> id, createdAt |-> tasks[k].createdAt,
   startDate |-> localInputToIso(start), endDate |-> localInputToIso(end)]

\* GroupPage.saveEdit up to `await api.put(...)`: a start in the past or an end
\* before the start ends it with an error toast.
saveEdit ==
  /\ route = GroupRoute
  /\ editingTaskId # NoTask
  /\ Calls + Len(pending) < MaxCalls
  /\ IF PastStart(editStart, dateNow)
       THEN /\ \E id \in RandomIds(ToastIdsInUse) :
                 showToast(SaveErrorToast("La date/heure de début ne peut pas être passée"), id)
            /\ UNCHANGED <<pending, sent>>
     ELSE IF EndBeforeStart(editStart, editEnd)
       THEN /\ \E id \in RandomIds(ToastIdsInUse) :
                 showToast(SaveErrorToast("La date/heure de fin doit être après la date de début"), id)
            /\ UNCHANGED <<pending, sent>>
     ELSE /\ pending' = Append(pending, [op |-> "saveEdit", id |-> editingTaskId,
                                          start |-> editStart, end |-> editEnd])
          /\ sent' = Issued(token)
          /\ UNCHANGED toastVars
  /\ UNCHANGED <<histVars, confirmVars, callers, pageVars, defaultAuth, response, viewVars,
                 editVars>>

\* The rest of saveEdit once the i-th request in flight has its response. The
\* server answers 2xx for a task it has.
SaveResponse(i, status) ==
  LET q == pending[i] IN
  /\ q.op = "saveEdit"
  /\ pending' = RemoveAt(pending, i)
  /\ token' = ResponseInterceptor(token, status)
  /\ response' = Received("saveEdit", status)
  /\ IF status = 200
       THEN /\ \E j \in 1..Len(tasks) : tasks[j].id = q.id
            /\ tasks' = sortByCreatedDesc(ReplaceTask(tasks, q.id, SavedTask(q.id, q.start, q.end)))
            /\ editingTaskId' = NoTask
            /\ editStart' = NoDate
            /\ editEnd' = NoDate
            /\ \E id \in RandomIds(ToastIdsInUse) :
                 showToast([type |-> "success", title |-> NoTitle,
                            message |-> "Tâche mise à jour", timeout |-> TimeoutUndefined], id)
       ELSE /\ \E id \in RandomIds(ToastIdsInUse) :
                 showToast(SaveErrorToast("Erreur mise à jour"), id)
            /\ UNCHANGED <<tasks, editVars>>
  /\ UNCHANGED <<histVars, confirmVars, callers, members, route, drawerOpen, defaultAuth, sent,
                 viewVars>>

SaveResponds == \E i \in 1..Len(pending), status \in ApiStatus : SaveResponse(i, status)

\* ------------------------------------------------------------- specification

Init ==
  /\ toasts = <<>>
  /\ timers = {}
  /\ nposts = 0
  /\ returned = 0
  /\ removals = FALSE
  /\ dismissed = {}
  /\ fired = {}
  /\ expired = {}
  /\ confirmModal = null
  /\ rendered = null
  /\ promises = <<>>
  /\ resolvedTwice = FALSE
  /\ callers = <<>>
  /\ tasks = <<FirstTask>>
  /\ members = MemberIds
  /\ token = TokenWithId
  /\ route = GroupRoute
  /\ drawerOpen = FALSE
  /\ defaultAuth = Bearer(TokenWithId)
  /\ pending = <<>>
  /\ sent = {}
  /\ groups = <<>>
  /\ serverGroups = {OwnGroup}
  /\ dateNow = 1
  /\ shown = [start |-> NoDate, end |-> NoDate, now |-> 1, status |-> "En attente"]
  /\ response = [op |-> "none", status |-> 200, stored |-> NoToken, left |-> NoToken]
  /\ editingTaskId = NoTask
  /\ editStart = NoDate
  /\ editEnd = NoDate

Next ==
  \/ PostToast
  \/ HideToast
  \/ TimerFire
  \/ Tick
  \/ Render
  \/ ClickOk
  \/ ClickCancel
  \/ deleteTask
  \/ deleteGroup
  \/ removeMember
  \/ deleteAccount
  \/ ResumeHandler
  \/ Respond
  \/ openProfile

Spec == Init /\ [][Next]_vars

\* The toast registry alone: the screens only post and close toasts.
ToastNext == PostToast \/ HideToast \/ TimerFire \/ Tick

ToastSpec == Init /\ [][ToastNext]_vars

\* The toast registry with callers that the type checker has not constrained.
UncheckedToastNext == ToastNext \/ PostWithoutMessage

UncheckedToastSpec == Init /\ [][UncheckedToastNext]_vars

\* The confirmation broker and the delete handlers alone.
ConfirmNext ==
  \/ Render
  \/ ClickOk
  \/ ClickCancel
  \/ deleteTask
  \/ deleteGroup
  \/ removeMember
  \/ deleteAccount
  \/ ResumeHandler
  \/ Respond
  \/ openProfile

ConfirmSpec == Init /\ [][ConfirmNext]_vars

\* The options a caller of useAlerts().confirm may pass: title, okLabel and
\* cancelLabel are optional.
AnyConfirmOpts ==
  [title : {NoTitle, "Supprimer le compte"}, message : {"Supprimer cette tâche ?"},
   okLabel : {NoLabel, "Supprimer"}, cancelLabel : {NoLabel, "", "Retirer"}]

\* Any caller: `await alerts.confirm(opts)`. callers records the options passed.
confirmWith ==
  /\ Calls < MaxCalls
  /\ \E opts \in AnyConfirmOpts, id \in RandomIds(ConfirmIdsInUse) :
       /\ callers' = Append(callers, [kind |-> "confirmWith", arg |-> opts, pc |-> "confirm",
                                      calls |-> 0, posts |-> 0, changed |-> FALSE])
       /\ confirm(opts, id)
  /\ UNCHANGED <<toastVars, histVars, appVars>>

\* The confirmation slot and its modal, with callers passing any options.
LabelNext == confirmWith \/ Render \/ ClickOk \/ ClickCancel

LabelSpec == Init /\ [][LabelNext]_vars

\* The profile drawer: the account is deleted, with its confirmation.
AccountNext ==
  \/ openProfile
  \/ deleteAccount
  \/ Render
  \/ ClickOk
  \/ ClickCancel
  \/ ResumeHandler
  \/ Respond

AccountSpec == Init /\ [][AccountNext]_vars

\* The page of a group with two tasks: Init after the tasks have been fetched again.
EditInit ==
  /\ toasts = <<>>
  /\ timers = {}
  /\ nposts = 0
  /\ returned = 0
  /\ removals = FALSE
  /\ dismissed = {}
  /\ fired = {}
  /\ expired = {}
  /\ confirmModal = null
  /\ rendered = null
  /\ promises = <<>>
  /\ resolvedTwice = FALSE
  /\ callers = <<>>
  /\ tasks = sortByCreatedDesc(<<FirstTask, SecondTask>>)
  /\ members = MemberIds
  /\ token = TokenWithId
  /\ route = GroupRoute
  /\ drawerOpen = FALSE
  /\ defaultAuth = Bearer(TokenWithId)
  /\ pending = <<>>
  /\ sent = {}
  /\ groups = <<>>
  /\ serverGroups = {OwnGroup}
  /\ dateNow = 1
  /\ shown = [start |-> NoDate, end |-> NoDate, now |-> 1, status |-> "En attente"]
  /\ response = [op |-> "none", status |-> 200, stored |-> NoToken, left |-> NoToken]
  /\ editingTaskId = NoTask
  /\ editStart = NoDate
  /\ editEnd = NoDate

\* The task rows of GroupPage: a row is edited and saved.
EditNext ==
  \/ startEdit
  \/ cancelEdit
  \/ setEditStart
  \/ setEditEnd
  \/ saveEdit
  \/ SaveResponds

EditSpec == EditInit /\ [][EditNext]_vars

\* The status badge of the task rows, as time passes.
StatusNext == renderTaskStatus \/ clockAdvances

StatusSpec == Init /\ [][StatusNext]_vars

\* The dashboard: its list of groups, fetched at the mount, and its two forms.
ListNext ==
  \/ backToDashboard
  \/ fetchGroups
  \/ create
  \/ join
  \/ GroupsResponse
  \/ HideToast
  \/ TimerFire
  \/ Tick

ListSpec == Init /\ [][ListNext]_vars

\* The session: login, the requests of the dashboard, logout, and the life of the
\* toasts they post.
SessionNext ==
  \/ HideToast
  \/ TimerFire
  \/ Tick
  \/ submit
  \/ LoginResponse
  \/ fetchGroups
  \/ FetchResponse
  \/ logout
  \/ drawerLogout
  \/ openProfile
  \/ open
  \/ backToDashboard

SessionSpec == Init /\ [][SessionNext]_vars

\* AlertsProvider alone: the toast registry, the confirmation slot and its modal;
\* the delete handlers call confirm and stay suspended on its promise.
AlertsNext ==
  \/ PostToast
  \/ HideToast
  \/ TimerFire
  \/ Tick
  \/ Render
  \/ ClickOk
  \/ ClickCancel
  \/ deleteTask
  \/ deleteGroup
  \/ removeMember
  \/ deleteAccount
  \/ openProfile

AlertsSpec == Init /\ [][AlertsNext]_vars

\* The user answers whatever modal is displayed; React renders a changed state;
\* resumed handlers, response (axios gives up after its timeout) and due timer
\* callbacks run.
FairSpec ==
  /\ Spec
  /\ WF_vars(Render)
  /\ WF_vars(ClickOk \/ ClickCancel)
  /\ WF_vars(ResumeHandler)
  /\ WF_vars(Respond)
  /\ WF_vars(TimerFire)

\* --------------------------------------------------------------------- claims

\* The confirm calls whose promise is not settled.
Unsettled == {r \in 1..Len(promises) : ~promises[r].settled}

\* C1: a confirm call made while a request is pending never silently replaces it:
\* every issued, unsettled request is the one held by the pending slot (the code
\* keeps no queue of requests).
C1_PendingNeverReplaced ==
  \A r \in Unsettled : confirmModal # null /\ confirmModal.resolve = r

\* C2: at most one confirmation request is outstanding (issued and not settled).
C2_AtMostOneOutstanding == Cardinality(Unsettled) <= 1

\* C3: every issued confirmation request is eventually settled, when the user
\* eventually answers whatever modal is displayed.
C3_EventuallySettled ==
  \A r \in 1..MaxCalls :
    (r <= Len(promises)) ~> (r <= Len(promises) /\ promises[r].settled)

\* C4: a confirmation is settled exactly once: a settled promise never changes,
\* and the click that settles a pending promise gives it the value of the button.
C4_SettledExactlyOnce ==
  [][\A r \in 1..Len(promises) :
       /\ promises[r].settled => promises'[r] = promises[r]
       /\ (~promises[r].settled /\ promises'[r].settled) =>
            /\ ClickOk => promises'[r].value
            /\ ClickCancel => ~promises'[r].value]_vars

\* C4 witness: a resolve closure has run on a promise that was already settled.
C4_Witness == resolvedTwice /\ \E r \in 1..Len(promises) : promises[r].settled

C6_DeleteOnlyAfterConfirmed ==
  \A r \in 1..Len(callers) :
    /\ callers[r].calls > 0 => (promises[r].settled /\ promises[r].value)
    /\ (promises[r].settled /\ ~promises[r].value) =>
         /\ callers[r].pc \in {"confirm", "returned"}
         /\ callers[r].calls = 0
         /\ callers[r].posts = 0
         /\ ~callers[r].changed

\* C6 witness: one handler returned on a refusal, another completed its request.
C6_Witness ==
  \E r, q \in 1..Len(callers) :
    /\ callers[r].pc = "returned"
    /\ callers[q].pc = "done" /\ callers[q].calls > 0

\* C7: as long as no dismissal or expiry has run, the visible list is the posted
\* toasts, most recently posted first.
C7_ReversePostOrder ==
  ~removals =>
    /\ Len(toasts) = nposts
    /\ \A i \in 1..Len(toasts) : toasts[i].seq = nposts + 1 - i

\* C7 witness: several toasts posted and nothing removed.
C7_Witness == ~removals /\ Len(toasts) >= 2

\* C8: the registry never holds two messages with the same id.
C8_UniqueIds ==
  \A i, j \in 1..Len(toasts) : i # j => toasts[i].id # toasts[j].id

\* C9: hideToast(id) cancels the pending timer of that toast: after it, no expiry
\* for that id remains scheduled.
C9_DismissCancelsTimer ==
  [][\A id \in Ids : hideToast(id) => \A t \in timers' : t.id # id]_vars

\* C10: a toast dismissed by hideToast is absent from the registry in every later
\* state, also when its timer fires afterwards.
C10_DismissedStaysAbsent ==
  \A i \in 1..Len(toasts) : toasts[i].seq \notin dismissed

\* C10 witness: a toast was dismissed before its delay had passed, and its timer
\* callback has run since.
C10_Witness == dismissed \cap fired # {}

\* C11: a toast posted with timeout null is never removed by a timer callback: a
\* step in which a timer callback runs keeps every such toast.
C11_NullTimeoutNeverExpires ==
  [][\A i \in 1..Len(toasts) :
       (toasts[i].timeout = TimeoutNull /\ TimerFire)
         => \E k \in 1..Len(toasts') : toasts'[k] = toasts[i]]_vars

\* The default delay of the other version of App.tsx (timeout ?? 4000).
DefaultTimeout4000 == 4000

\* C12: a toast posted with no timeout field is removed by its timer at the
\* default delay of 4000 ms: the showToast call that posts it schedules its
\* timer callback 4000 ms ahead.
C12_DefaultDelayIs4000 ==
  [][(nposts' = nposts + 1 /\ Head(toasts').timeout = TimeoutUndefined)
       => \E t \in timers' \ timers :
            t.seq = nposts' /\ t.left = DefaultTimeout4000]_vars

\* The positions of the toasts of s whose id is not id.
OtherPositions(s, id) == {i \in 1..Len(s) : s[i].id # id}

\* C13: hideToast(id) can always be called; it removes the toasts with that id
\* and keeps every other toast, with all its fields, in the same relative order.
C13_HideToastRemovesExactlyId ==
  /\ [](\A id \in Ids : ENABLED hideToast(id))
  /\ [][\A id \in Ids :
          hideToast(id) =>
            /\ \A k \in 1..Len(toasts') : toasts'[k].id # id
            /\ Len(toasts') = Cardinality(OtherPositions(toasts, id))
            /\ \A i \in OtherPositions(toasts, id) :
                 \E k \in 1..Len(toasts') : toasts'[k] = toasts[i]
            /\ \A k, l \in 1..Len(toasts') :
                 k < l => \E i, j \in OtherPositions(toasts, id) :
                            i < j /\ toasts[i] = toasts'[k] /\ toasts[j] = toasts'[l]]_vars

\* A hideToast call has removed a toast and another toast is still displayed.
C13_Witness == dismissed # {} /\ toasts # <<>>

\* C14: hideToast is idempotent: after hideToast(id), a second hideToast(id)
\* leaves the registry as it is; hideToast of an id that no toast has leaves the
\* registry unchanged.
C14_HideToastIdempotent ==
  [][\A id \in Ids :
       hideToast(id) =>
         /\ FilterOutId(toasts', id) = toasts'
         /\ (OtherPositions(toasts, id) = 1..Len(toasts) => toasts' = toasts)]_vars

\* A hideToast call for an absent id has run (nothing was ever removed) and a
\* toast is displayed.
C14_Witness == removals /\ dismissed = {} /\ fired = {} /\ toasts # <<>>

\* C15: the slot never holds a request whose promise is settled: the step that
\* settles a request clears confirmModal.
C15_SettledIsCleared ==
  confirmModal # null => ~promises[confirmModal.resolve].settled

\* A request has been settled and the slot is empty.
C15_Witness ==
  /\ confirmModal = null
  /\ \E r \in 1..Len(promises) : promises[r].settled

\* C16: neither the passage of time nor a toast operation settles or clears a
\* confirmation: the slot and the promises change only in a click on OK or
\* Cancel or in a confirm call.
C16_ConfirmOnlyByClickOrConfirm ==
  /\ [][(PostToast \/ HideToast \/ TimerFire \/ Tick)
          => UNCHANGED <<confirmModal, promises>>]_vars
  /\ [][(confirmModal' # confirmModal \/ promises' # promises)
          => (ClickOk \/ ClickCancel \/ deleteTask \/ deleteGroup \/ removeMember
                \/ deleteAccount)]_vars

\* A request is displayed and pending, and a toast was dismissed and a timer
\* callback has run.
C16_Witness ==
  /\ confirmModal # null
  /\ rendered = confirmModal
  /\ ~promises[confirmModal.resolve].settled
  /\ fired # {}
  /\ dismissed # {}

\* C17: a toast whose message is missing is never added to the registry (the
\* call is refused with a precondition error and the registry stays as it was).
C17_NoToastWithoutMessage ==
  \A i \in 1..Len(toasts) : toasts[i].message # NoMessage

\* C18: a showToast call is one step; it returns the id of the toast it puts at
\* the head of the registry, schedules at most that toast's timer (none when the
\* timeout is null), and leaves the existing toasts, the pending timers and the
\* confirmation slot as they were.
C18_ShowToastOnlyAddsHead ==
  [][nposts' = nposts + 1 =>
       /\ toasts' # <<>>
       /\ Tail(toasts') = toasts
       /\ Head(toasts').id = returned'
       /\ Head(toasts').seq = nposts'
       /\ timers \subseteq timers'
       /\ Cardinality(timers' \ timers) <= 1
       /\ \A t \in timers' \ timers : t.id = returned' /\ t.seq = nposts'
       /\ (Head(toasts').timeout = TimeoutNull <=> timers' = timers)
       /\ UNCHANGED <<confirmModal, rendered, promises>>]_vars

\* A showToast call was made while a toast was displayed and a timer pending:
\* both toasts are displayed and the call returned the id of the head.
C18_Witness ==
  /\ nposts >= 2
  /\ Len(toasts) >= 2
  /\ Cardinality(timers) >= 2
  /\ returned = Head(toasts).id

\* C19: the request confirm publishes (in the slot, then in the rendered modal)
\* has okLabel "OK" and cancelLabel "Annuler" where the caller passed none, the
\* caller's own labels otherwise, and the caller's title and message.
C19_LabelsDefaulted ==
  \A m \in {confirmModal, rendered} \ {null} :
    LET opts == callers[m.resolve].arg
    IN  /\ m.title = opts.title
        /\ m.message = opts.message
        /\ (opts.okLabel = NoLabel => m.okLabel = "OK")
        /\ (opts.okLabel # NoLabel => m.okLabel = opts.okLabel)
        /\ (opts.cancelLabel = NoLabel => m.cancelLabel = "Annuler")
        /\ (opts.cancelLabel # NoLabel => m.cancelLabel = opts.cancelLabel)

\* The modal displays a request made with no okLabel and an explicit, empty
\* cancelLabel.
C19_Witness ==
  /\ rendered # null
  /\ rendered = confirmModal
  /\ callers[rendered.resolve].arg.okLabel = NoLabel
  /\ callers[rendered.resolve].arg.cancelLabel = ""
  /\ rendered.okLabel = "OK"

\* C20: whatever the interleaving of showToast calls, hideToast calls and timer
\* callbacks, no update is lost: the registry holds exactly the toasts posted and
\* neither dismissed nor removed by a timer callback, the latest post first.
C20_RegistryIsPostedMinusRemoved ==
  /\ {toasts[i].seq : i \in 1..Len(toasts)} = (1..nposts) \ (dismissed \cup expired)
  /\ \A i, j \in 1..Len(toasts) : i < j => toasts[i].seq > toasts[j].seq

\* Two toasts were posted; a hideToast call removed one and a timer callback the
\* other.
C20_Witness ==
  /\ nposts >= 2
  /\ dismissed # {}
  /\ expired # {}
  /\ dismissed \cap expired = {}

\* The post numbers of the toasts that have a timer callback pending in ts.
TimerSeqs(ts) == {t.seq : t \in ts}

\* C21: a showToast call schedules exactly one timer callback, for the new toast
\* and at its resolved delay, when the timeout is not null, and none when it is
\* null; no other step schedules or renews a timer; a callback runs at most once
\* (it is pending until it runs and never after), and its run removes no toast
\* whose id is not the id it was scheduled for.
C21_TimersSingleShot ==
  /\ [](\A t \in timers : t.seq \notin fired /\ \A u \in timers : u.seq = t.seq => u = t)
  /\ [][/\ nposts' = nposts + 1 =>
             LET new == {t \in timers' : t.seq = nposts'}
             IN  IF Head(toasts').timeout = TimeoutNull
                   THEN new = {}
                   ELSE /\ Cardinality(new) = 1
                        /\ \A t \in new : /\ t.id = Head(toasts').id
                                          /\ t.left = ResolveTimeout(Head(toasts').timeout)
        /\ nposts' = nposts => TimerSeqs(timers') \subseteq TimerSeqs(timers)
        /\ fired' # fired =>
             \E t \in timers :
               /\ t.left = 0
               /\ t.seq \notin fired
               /\ fired' = fired \cup {t.seq}
               /\ timers' = timers \ {t}
               /\ Len(toasts') = Cardinality(OtherPositions(toasts, t.id))
               /\ \A i \in OtherPositions(toasts, t.id) :
                    \E k \in 1..Len(toasts') : toasts'[k] = toasts[i]]_vars

\* A timer callback has run and removed its toast, and another toast with its
\* own timer pending is still displayed.
C21_Witness ==
  /\ expired # {}
  /\ toasts # <<>>
  /\ \E t \in timers : t.seq = Head(toasts).seq

\* The confirm calls that were followed by another confirm call before they were
\* settled: their request was overwritten in the slot, or cleared from it unsettled.
Overwritten == {r \in Unsettled : r < Len(promises)}

C23_AuthMatchesStoredToken ==
  \A q \in sent :
    q.auth = (IF q.stored # NoToken THEN Bearer(q.stored) ELSE NoAuthorization)

\* C24: a response with status 401 removes the stored token, another error
\* status leaves it as it was, and in both cases the error reaches the caller:
\* the catch branch of the caller runs (it posts its error toast or, for
\* fetchGroups after a 401, navigates to "/").
C24_TokenRemovedOn401Only ==
  /\ [](/\ response.status = 401 => response.left = NoToken
        /\ response.status \notin {200, 401} => response.left = response.stored)
  /\ [][(pending' # pending /\ Len(pending') < Len(pending) /\ response'.status # 200) =>
          \/ nposts' = nposts + 1 /\ Head(toasts').type = "error"
          \/ response'.op = "fetchGroups" /\ response'.status = 401 /\ route' = "/"]_vars

\* The last response was a 401 and removed the stored token, and an error toast
\* posted after an earlier error is displayed.
C24_Witness ==
  /\ response.status = 401
  /\ response.stored # NoToken
  /\ response.left = NoToken
  /\ \E i \in 1..Len(toasts) : toasts[i].type = "error"

\* C25: a protected screen (/dashboard, /groups/:id) is never displayed while no
\* token is stored.
C25_ProtectedNeedsToken ==
  route \in {"/dashboard", GroupRoute} => token # NoToken

\* C26: the handling of a login response changes the stored token only when the
\* request succeeded, and then navigates to the dashboard; after a failed request
\* the stored token and the location are as before and exactly one toast, an
\* error toast, has been posted.
C26_LoginStoresOnlyOnSuccess ==
  [][(Len(pending') < Len(pending) /\ response'.op = "login") =>
       /\ token' # token => (response'.status = 200 /\ route' = "/dashboard")
       /\ response'.status # 200 =>
            /\ token' = token
            /\ route' = route
            /\ nposts' = nposts + 1
            /\ Head(toasts').type = "error"]_vars

\* The status the claim gives for the dates start and end at time now (for
\* start > end it gives none: any status is accepted).
ClaimedStatus(start, end, now) ==
  CASE start = NoDate /\ end = NoDate -> {"En attente"}
    [] start # NoDate /\ end = NoDate ->
         IF now < start THEN {"En attente"} ELSE {"En cours"}
    [] start = NoDate /\ end # NoDate ->
         IF now < end THEN {"En cours"} ELSE {"Terminée"}
    [] start # NoDate /\ end # NoDate /\ start <= end ->
         IF now < start THEN {"En attente"}
         ELSE IF now < end THEN {"En cours"} ELSE {"Terminée"}
    [] OTHER -> {"En attente", "En cours", "Terminée"}

\* C27: the status a task row displays is the one the claim gives for its dates
\* and the time of the render.
C27_StatusFromDates == shown.status \in ClaimedStatus(shown.start, shown.end, shown.now)

\* C28: the displayed list of groups is sorted by creation time, newest first,
\* and no two of its entries have the same id.
C28_GroupsSortedAndUnique ==
  \A i, j \in 1..Len(groups) :
    i < j => (groups[i].createdAt >= groups[j].createdAt /\ groups[i].id # groups[j].id)

\* The deleteAccount handlers.
AccountCallers == {r \in 1..Len(callers) : callers[r].kind = "deleteAccount"}

\* C29: a response that is a success, to DELETE /auth/me or to the fallback
\* DELETE /users/{uid}, ends the session (token removed, drawer closed, location
\* "/") and posts the success toast; a failed response ends nothing (drawer and
\* location as before, and the token too unless the status is 401); the failure
\* of the first request with a user id at hand posts nothing and issues the
\* fallback; the failure that ends the handler posts exactly one error toast.
C29_AccountDeletedOnSuccessOnly ==
  /\ [](\A r \in AccountCallers :
          /\ callers[r].calls <= 2
          /\ callers[r].pc = "done" => callers[r].posts = 1)
  /\ [][\A r \in AccountCallers, status \in ApiStatus :
          ApiResponse(r, status) =>
            IF status = 200
              THEN /\ token' = NoToken /\ drawerOpen' = FALSE /\ route' = "/"
                   /\ nposts' = nposts + 1 /\ Head(toasts').type = "success"
              ELSE /\ drawerOpen' = drawerOpen /\ route' = route
                   /\ status # 401 => token' = token
                   /\ IF callers'[r].pc = "api2"
                        THEN nposts' = nposts /\ callers[r].pc = "api"
                        ELSE nposts' = nposts + 1 /\ Head(toasts').type = "error"]_vars

\* DELETE /auth/me and the fallback have both failed: the handler has ended with
\* one toast, the token is stored and the drawer open.
C29_Witness ==
  \E r \in AccountCallers :
    /\ callers[r].pc = "done"
    /\ callers[r].calls = 2
    /\ callers[r].posts = 1
    /\ token = TokenWithId
    /\ drawerOpen

\* C30: a step of saveEdit changes the displayed tasks only when it handles a 2xx
\* response to its PUT request: then the row of the edited task, and no other,
\* takes the saved dates, the rows keep their places and no task is in edit mode
\* any more. A save rejected for a start in the past or an end before the start,
\* and a failed response, leave the rows and the edit mode as they are and post one
\* error toast; a save that issues the request changes neither.
C30_SaveChangesListOnSuccessOnly ==
  [][/\ Len(pending') > Len(pending) =>
          /\ tasks' = tasks
          /\ editingTaskId' = editingTaskId
          /\ nposts' = nposts
          /\ ~PastStart(editStart, dateNow)
          /\ ~EndBeforeStart(editStart, editEnd)
     /\ (pending' = pending /\ nposts' # nposts) =>
          /\ PastStart(editStart, dateNow) \/ EndBeforeStart(editStart, editEnd)
          /\ tasks' = tasks
          /\ editingTaskId' = editingTaskId
          /\ nposts' = nposts + 1
          /\ Head(toasts').type = "error"
     /\ Len(pending') < Len(pending) =>
          \E i \in 1..Len(pending) :
            /\ pending' = RemoveAt(pending, i)
            /\ nposts' = nposts + 1
            /\ IF response'.status = 200
                 THEN /\ Len(tasks') = Len(tasks)
                      /\ \A k \in 1..Len(tasks) :
                           tasks'[k] = IF tasks[k].id = pending[i].id
                                         THEN [tasks[k] EXCEPT !.startDate = pending[i].start,
                                                               !.endDate = pending[i].end]
                                         ELSE tasks[k]
                      /\ editingTaskId' = NoTask
                      /\ Head(toasts').type = "success"
                 ELSE /\ tasks' = tasks
                      /\ editingTaskId' = editingTaskId
                      /\ Head(toasts').type = "error"
     /\ tasks' # tasks => Len(pending') < Len(pending) /\ response'.status = 200]_vars

\* The older of two tasks has been saved with a start date: its row shows the date,
\* the row of the other task is as it was and no task is in edit mode.
C30_Witness ==
  /\ response.op = "saveEdit"
  /\ response.status = 200
  /\ Len(tasks) = 2
  /\ tasks[1] = SecondTask
  /\ tasks[2].id = FirstTask.id
  /\ tasks[2].startDate # NoDate
  /\ editingTaskId = NoTask

====
